---- MODULE Spec2Model ----
(***************************************************************************)
(* Model of GLR_Pipeline/app.py: a Streamlit script that detects the       *)
(* [NAME] placeholders of a .docx template, extracts the text of uploaded  *)
(* PDFs, asks a remote language model for the placeholder values under one *)
(* of four modes, merges the answer with a regex fallback and a secondary  *)
(* inference pass, fills the template and offers it for download.          *)
(*                                                                         *)
(* Every user interaction reruns the script from its first line; the       *)
(* script's local variables live for one run, the widgets (uploads, mode)  *)
(* keep their value across runs.  Requests are blocking calls: the script  *)
(* sits at an await position until the response (or an error) is back.     *)
(***************************************************************************)
EXTENDS Integers, Sequences, FiniteSets, TLC

VARIABLES
    api_key,            \* OPENROUTER_API_KEY is set (line 13)
    uploaded_template,  \* widget: the uploaded template, or NoDoc
    uploaded_pdfs,      \* widget: the list of uploaded PDF files
    mode,               \* widget: the selected extraction mode
    button,             \* "Run Extraction" was clicked for this run
    pc,                 \* position of the script
    steps,              \* the script steps executed so far in this run
    placeholders,       \* find_placeholders' result (sorted list)
    combined,           \* the texts kept in `combined`, in upload order
    fallback,           \* fallback_structured's result
    candidates,         \* llm_voting: candidates[ph]
    round,              \* llm_voting: index of the current temperature
    out,                \* the response the last request returned
    mapping,            \* the placeholder mapping
    inflight,           \* requests sent and not yet returned
    reqlog,             \* the requests sent in this run, in order
    out_doc,            \* the document fill_docx produced, or NoDoc
    download            \* the download button is shown

vars == <<api_key, uploaded_template, uploaded_pdfs, mode, button, pc, steps,
          placeholders, combined, fallback, candidates, round, out, mapping,
          inflight, reqlog, out_doc, download>>

----------------------------------------------------------------------------
(* Bounds *)

MaxPdfs == 1

----------------------------------------------------------------------------
(* Values: JSON strings and null.  None stands for JSON null / Python None. *)

None == "<None>"
Values == {"", " ", "x", "y", None}

\* Python truthiness of a value: "" and None are falsy.
Truthy(v) == v \notin {"", None}

\* str.strip() on the strings of the model.
Strip(v) == IF v = " " THEN "" ELSE v

\* Python dictionaries are functions on a finite set of keys.
EmptyDict == [k \in {} |-> ""]
Get(d, k, default) == IF k \in DOMAIN d THEN d[k] ELSE default
Put(d, k, v) == [x \in (DOMAIN d) \cup {k} |-> IF x = k THEN v ELSE d[x]]

Range(s) == {s[i] : i \in 1..Len(s)}

----------------------------------------------------------------------------
(* Templates.  A paragraph is a sequence of atoms: a placeholder token      *)
(* [NAME] or literal text.                                                  *)

Tok(n) == [tok |-> TRUE, s |-> n]
Lit(t) == [tok |-> FALSE, s |-> t]

\* The placeholder names of the model, in the order sorted() gives them.
NameOrder == <<"CLAIM_NO", "DATE_RECEIVED", "INSURED_NAME", "MORTGAGEE">>
ExtraKey == "EXTRA"

NoDoc == [body |-> <<>>, tables |-> <<>>, header |-> <<>>, footer |-> <<>>,
          valid |-> FALSE]

Doc(b, t, h, f) == [body |-> b, tables |-> t, header |-> h, footer |-> f,
                    valid |-> TRUE]

Templates ==
    { Doc(<< <<Lit("Insured: "), Tok("INSURED_NAME")>> >>,
          << <<Tok("CLAIM_NO")>> >>, <<>>, <<>>),
      Doc(<< <<Tok("MORTGAGEE"), Lit(" / "), Tok("MORTGAGEE")>> >>,
          <<>>, <<>>, << <<Lit("Lender "), Tok("MORTGAGEE")>> >>),
      Doc(<< <<Lit("Received "), Tok("DATE_RECEIVED")>> >>,
          <<>>, << <<Tok("DATE_RECEIVED")>> >>, <<>>) }

\* PLACEHOLDER_RE.findall(p.text) over a list of paragraphs
findall(p) == {p[j].s : j \in {j \in 1..Len(p) : p[j].tok}}
scan(paragraphs) == UNION {findall(paragraphs[i]) : i \in 1..Len(paragraphs)}

sorted(S) == SelectSeq(NameOrder, LAMBDA n : n \in S)

find_placeholders(doc) ==
    sorted(scan(doc.body) \cup scan(doc.tables)
           \cup scan(doc.header) \cup scan(doc.footer))

\* repl(p) of fill_docx: every token whose name is a key of the mapping is
\* replaced by str(value).
repl(p, m) ==
    [j \in 1..Len(p) |->
        IF p[j].tok /\ p[j].s \in DOMAIN m THEN Lit(m[p[j].s]) ELSE p[j]]

fill_docx(doc, m) ==
    [doc EXCEPT !.body = [i \in 1..Len(doc.body) |-> repl(doc.body[i], m)],
                !.tables = [i \in 1..Len(doc.tables) |-> repl(doc.tables[i], m)]]

----------------------------------------------------------------------------
(* PDFs.  A PDF is known by whether it has a text layer and by what the    *)
(* patterns of fallback_structured capture in its text.                   *)

NoMatch == "<nomatch>"
Today == "11/04/2026"

Pdf(t, ins, addr, date, mort) ==
    [hasText |-> t, insured |-> ins, addr |-> addr, date |-> date,
     mortgagee |-> mort]

PdfFiles ==
    { Pdf(FALSE, "y", NoMatch, NoMatch, NoMatch),
      Pdf(TRUE, "x", NoMatch, "01/02/2026", ""),
      Pdf(TRUE, NoMatch, NoMatch, NoMatch, NoMatch) }

\* extract_text_from_pdf_bytes: the empty text when the PDF has no text
\* layer or cannot be opened
EmptyText == Pdf(FALSE, NoMatch, NoMatch, NoMatch, NoMatch)
extract_text_from_pdf_bytes(f) == IF f.hasText THEN f ELSE EmptyText

\* re.search over the joined text: the first text with a match decides
RECURSIVE search(_, _)
search(texts, field) ==
    IF texts = <<>> THEN NoMatch
    ELSE IF Head(texts)[field] # NoMatch THEN Head(texts)[field]
    ELSE search(Tail(texts), field)

fallback_structured(texts, phs) ==
    LET d0 == [k \in Range(phs) |-> ""]
        m  == search(texts, "insured")
        d1 == IF m # NoMatch THEN Put(d0, "INSURED_NAME", m) ELSE d0
        a  == search(texts, "addr")
        d2 == IF a # NoMatch
              THEN Put(Put(Put(Put(d1, "INSURED_H_STREET", a),
                       "INSURED_H_CITY", a), "INSURED_H_STATE", a),
                       "INSURED_H_ZIP", a)
              ELSE d1
        md == search(texts, "date")
        d3 == IF md # NoMatch THEN Put(d2, "DATE_INSPECTED", md) ELSE d2
        m2 == search(texts, "mortgagee")
        d4 == IF m2 # NoMatch THEN Put(d3, "MORTGAGEE", m2) ELSE d3
    IN  IF "DATE_RECEIVED" \in DOMAIN d4
        THEN Put(d4, "DATE_RECEIVED", Today) ELSE d4

----------------------------------------------------------------------------
(* Requests and responses *)

Modes == {"high_accuracy", "strict_validation", "field_audit",
          "multi_llm_voting"}

\* llm_voting(rounds=3) and its temperatures, in tenths: [0.0, 0.2, 0.6]
Rounds == 3
temps == SubSeq(<<0, 2, 6>>, 1, Rounds)

Request(kind, prompt, t, mt) ==
    [kind |-> kind, prompt |-> prompt, temperature |-> t, max_tokens |-> mt]

\* Variant: every mode sends call_openrouter's request
ModeRequest_single(m, r) == Request("primary", <<m>>, 0, 1500)

\* The request a primary extraction sends: call_openrouter fixes the
\* temperature at 0.0 and the three single-shot modes pass max_tokens=1500;
\* llm_voting builds its own payload for round r.
ModeRequest(m, r) ==
    IF m = "multi_llm_voting"
    THEN Request("primary", <<m, temps[r]>>, temps[r], 1200)
    ELSE Request("primary", <<m>>, 0, 1500)

InferRequest == Request("infer", <<"no_missing">>, 0, 800)

\* Strip the prompt: what two requests share when only the prompt differs
Params(rq) == [kind |-> rq.kind, temperature |-> rq.temperature,
               max_tokens |-> rq.max_tokens]

\* What a request can come back with:
\*   http_error   requests.post / raise_for_status / r.json() raised
\*   unparseable  json.loads raised
\*   bad_shape    JSON, but not an object of the expected shape (a list, a
\*                non-object "mapping", a non-string candidate)
\*   ok           a JSON object; obj holds the key -> value pairs the code
\*                reads and order the order its keys appear in
NoResponse == [kind |-> "none", obj |-> EmptyDict, order |-> <<>>]
Failure(k) == [kind |-> k, obj |-> EmptyDict, order |-> <<>>]
Failures == {Failure("http_error"), Failure("unparseable"),
             Failure("bad_shape")}

\* The JSON objects of the model: any subset of the placeholders with any
\* value, and possibly one key that is no placeholder
ExtraValues == {"", "x"}
Dicts(keys, vals) == UNION {[D -> vals] : D \in SUBSET keys}
Objects(phs, vals) ==
    LET base == Dicts(Range(phs), vals)
    IN  base \cup {Put(d, ExtraKey, v) : d \in base, v \in ExtraValues}

PrimaryResponses(phs) ==
    Failures \cup
    {[kind |-> "ok", obj |-> d, order |-> <<>>] :
        d \in Objects(phs, Values)}

\* The values the secondary pass can answer with
InferValues == {"", "x"}

Orders(D) == {s \in [1..Cardinality(D) -> D] :
                 \A i, j \in 1..Cardinality(D) : s[i] = s[j] => i = j}

InferResponses(phs) ==
    Failures \cup
    {[kind |-> "ok", obj |-> r[1], order |-> r[2]] :
        r \in UNION {{<<d, o>> : o \in Orders(DOMAIN d)} :
                        d \in Objects(phs, InferValues)}}

----------------------------------------------------------------------------
(* The extraction modes *)

\* llm_high_accuracy / llm_strict_validation / llm_field_audit: the object
\* under "mapping" (or "field_values"), with setdefault(ph, "") for every
\* placeholder
single_shot_mapping(obj, phs) ==
    [k \in (DOMAIN obj) \cup Range(phs) |-> Get(obj, k, "")]

\* llm_voting, lines 211-213: one parsed round adds its truthy values,
\* stripped, to the candidates
add_candidates(cands, parsed, phs) ==
    [ph \in Range(phs) |->
        IF Truthy(Get(parsed, ph, None))
        THEN Append(cands[ph], Strip(parsed[ph]))
        ELSE cands[ph]]

\* collections.Counter(vals): the distinct values in first-seen order and
\* their counts
RECURSIVE Counter(_)
Counter(vals) ==
    IF vals = <<>> THEN <<>>
    ELSE LET c == Counter(SubSeq(vals, 1, Len(vals) - 1))
             v == vals[Len(vals)]
         IN  IF \E i \in 1..Len(c) : c[i][1] = v
             THEN [i \in 1..Len(c) |->
                     IF c[i][1] = v THEN <<v, c[i][2] + 1>> ELSE c[i]]
             ELSE Append(c, <<v, 1>>)

\* Variant: the last maximum wins a tie
RECURSIVE most_common_last(_)
most_common_last(c) ==
    IF Len(c) = 1 THEN c[1]
    ELSE LET best == most_common_last(SubSeq(c, 1, Len(c) - 1))
         IN  IF c[Len(c)][2] >= best[2] THEN c[Len(c)] ELSE best

\* most_common(1)[0]: max() over the items by count keeps the first maximum
RECURSIVE most_common(_)
most_common(c) ==
    IF Len(c) = 1 THEN c[1]
    ELSE LET best == most_common(SubSeq(c, 1, Len(c) - 1))
         IN  IF c[Len(c)][2] > best[2] THEN c[Len(c)] ELSE best

\* lines 218-226
final_map(cands) ==
    [ph \in DOMAIN cands |->
        IF cands[ph] = <<>> THEN "" ELSE most_common(Counter(cands[ph]))[1]]

\* Variant: a non-empty fallback value wins over the primary value
merge_fallback_first(m, fb, phs) ==
    [k \in (DOMAIN m) \cup Range(phs) |->
        IF k \in Range(phs) /\ (Truthy(Get(fb, k, "")) \/ ~Truthy(Get(m, k, None)))
        THEN Get(fb, k, "") ELSE m[k]]

\* lines 353-355: fill blanks with fallback
merge(m, fb, phs) ==
    [k \in (DOMAIN m) \cup Range(phs) |->
        IF k \in Range(phs) /\ ~Truthy(Get(m, k, None))
        THEN Get(fb, k, "") ELSE m[k]]

\* Variant: every field counts as empty
still_empty_all(m) == DOMAIN m

\* line 358
still_empty(m) == {k \in DOMAIN m : m[k] = ""}

\* lines 374-376, inside the try: the loop stops at the first key that is
\* not in the mapping (KeyError), keeping what it wrote before
RECURSIVE apply_inferred(_, _, _)
apply_inferred(m, nm_map, order) ==
    IF order = <<>> THEN m
    ELSE LET k == Head(order)
         IN  IF k \notin DOMAIN m THEN m
             ELSE apply_inferred(IF m[k] = "" THEN Put(m, k, nm_map[k]) ELSE m,
                                 nm_map, Tail(order))

----------------------------------------------------------------------------
(* The script *)

\* Variant: the check for the PDFs is missing
uploads_ready_template_only(t, pdfs) == t.valid

\* lines 302-308: the script goes on only with a template and a PDF
uploads_ready(t, pdfs) == t.valid /\ pdfs # <<>>

\* Variant: a request that came back stays counted as outstanding
post_returns_leaves_outstanding(n) == n

\* requests.post is synchronous: when it returns or raises, the request is
\* no longer outstanding
post_returns(n) == n - 1

\* Variant: every mode skips a response that is no JSON
raises_only_http(m, kind) == kind \in {"http_error", "bad_shape"}

\* The responses that raise out of the primary extraction: llm_voting
\* catches json.loads' exception (lines 206-209), the other modes catch none
raises(m, kind) ==
    IF m = "multi_llm_voting" THEN kind \in {"http_error", "bad_shape"}
    ELSE kind # "ok"

Idle == pc \in {"stopped", "done", "crashed"}

Init ==
    /\ api_key \in BOOLEAN
    /\ uploaded_template = NoDoc
    /\ uploaded_pdfs = <<>>
    /\ mode = "high_accuracy"
    /\ button = FALSE
    /\ pc = "start"
    /\ steps = {}
    /\ placeholders = <<>>
    /\ combined = <<>>
    /\ fallback = EmptyDict
    /\ candidates = EmptyDict
    /\ round = 0
    /\ out = NoResponse
    /\ mapping = EmptyDict
    /\ inflight = 0
    /\ reqlog = <<>>
    /\ out_doc = NoDoc
    /\ download = FALSE

\* Streamlit reruns the script from the top: the locals start afresh
Rerun(clicked) ==
    /\ button' = clicked
    /\ pc' = "start"
    /\ steps' = {}
    /\ placeholders' = <<>>
    /\ combined' = <<>>
    /\ fallback' = EmptyDict
    /\ candidates' = EmptyDict
    /\ round' = 0
    /\ out' = NoResponse
    /\ mapping' = EmptyDict
    /\ reqlog' = <<>>
    /\ out_doc' = NoDoc
    /\ download' = FALSE
    /\ UNCHANGED <<api_key, inflight>>

\* line 295
UploadTemplate ==
    /\ Idle
    /\ \E t \in Templates \cup {NoDoc} :
          /\ t # uploaded_template
          /\ uploaded_template' = t
    /\ Rerun(FALSE)
    /\ UNCHANGED <<uploaded_pdfs, mode>>

\* lines 296-297
UploadPdf ==
    /\ Idle
    /\ Len(uploaded_pdfs) < MaxPdfs
    /\ \E f \in PdfFiles : uploaded_pdfs' = Append(uploaded_pdfs, f)
    /\ Rerun(FALSE)
    /\ UNCHANGED <<uploaded_template, mode>>

RemovePdfs ==
    /\ Idle
    /\ uploaded_pdfs # <<>>
    /\ uploaded_pdfs' = <<>>
    /\ Rerun(FALSE)
    /\ UNCHANGED <<uploaded_template, mode>>

\* lines 299-300
SelectMode ==
    /\ Idle
    /\ \E m \in Modes : m # mode /\ mode' = m
    /\ Rerun(FALSE)
    /\ UNCHANGED <<uploaded_template, uploaded_pdfs>>

\* line 331: the button exists once the script has run past the upload checks
ClickRun ==
    /\ pc \in {"done", "crashed"}
    /\ Rerun(TRUE)
    /\ UNCHANGED <<uploaded_template, uploaded_pdfs, mode>>

widgets == <<api_key, uploaded_template, uploaded_pdfs, mode, button>>

\* lines 302-308
CheckUploads ==
    /\ pc = "start"
    /\ pc' = IF uploads_ready(uploaded_template, uploaded_pdfs)
             THEN "detect" ELSE "stopped"
    /\ steps' = steps \cup {"check"}
    /\ UNCHANGED <<widgets, placeholders, combined, fallback, candidates,
                   round, out, mapping, inflight, reqlog, out_doc, download>>

\* lines 310-316
Detect ==
    /\ pc = "detect"
    /\ placeholders' = find_placeholders(uploaded_template)
    /\ pc' = "extract"
    /\ steps' = steps \cup {"detect"}
    /\ UNCHANGED <<widgets, combined, fallback, candidates, round, out,
                   mapping, inflight, reqlog, out_doc, download>>

\* lines 319-328: the PDFs without text are skipped
ExtractText ==
    /\ pc = "extract"
    /\ combined' = SelectSeq(
           [i \in 1..Len(uploaded_pdfs) |->
               extract_text_from_pdf_bytes(uploaded_pdfs[i])],
           LAMBDA txt : txt.hasText)
    /\ pc' = "button"
    /\ steps' = steps \cup {"extract"}
    /\ UNCHANGED <<widgets, placeholders, fallback, candidates, round, out,
                   mapping, inflight, reqlog, out_doc, download>>

\* line 331
ButtonCheck ==
    /\ pc = "button"
    /\ pc' = IF button THEN "fallback" ELSE "done"
    /\ steps' = IF button THEN steps \cup {"run"} ELSE steps
    /\ UNCHANGED <<widgets, placeholders, combined, fallback, candidates,
                   round, out, mapping, inflight, reqlog, out_doc, download>>

\* line 333
Fallback ==
    /\ pc = "fallback"
    /\ fallback' = fallback_structured(combined, placeholders)
    /\ pc' = "dispatch"
    /\ steps' = steps \cup {"fallback"}
    /\ UNCHANGED <<widgets, placeholders, combined, candidates, round, out,
                   mapping, inflight, reqlog, out_doc, download>>

\* lines 335-346 with call_openrouter up to requests.post (lines 75-87)
SingleShotSend ==
    /\ pc = "dispatch"
    /\ mode # "multi_llm_voting"
    /\ IF api_key
       THEN /\ reqlog' = Append(reqlog, ModeRequest(mode, 1))
            /\ inflight' = inflight + 1
            /\ pc' = "primary_await"
       ELSE /\ pc' = "crashed"
            /\ UNCHANGED <<reqlog, inflight>>
    /\ UNCHANGED <<widgets, steps, placeholders, combined, fallback,
                   candidates, round, out, mapping, out_doc, download>>

\* requests.post returns inside call_openrouter (lines 86-87)
SingleShotReceive ==
    /\ pc = "primary_await"
    /\ \E r \in PrimaryResponses(placeholders) : out' = r
    /\ inflight' = post_returns(inflight)
    /\ pc' = "primary_parse"
    /\ UNCHANGED <<widgets, steps, placeholders, combined, fallback,
                   candidates, round, mapping, reqlog, out_doc, download>>

\* lines 88-89 and 112-122 (143-151, 169-176), then lines 337, 341, 345
SingleShotParse ==
    /\ pc = "primary_parse"
    /\ IF raises(mode, out.kind)
       THEN /\ pc' = "crashed"
            /\ UNCHANGED <<mapping, steps>>
       ELSE /\ mapping' = single_shot_mapping(out.obj, placeholders)
            /\ pc' = "merge"
            /\ steps' = steps \cup {"primary"}
    /\ out' = NoResponse
    /\ UNCHANGED <<widgets, placeholders, combined, fallback, candidates,
                   round, inflight, reqlog, out_doc, download>>

\* lines 347-348 and 180-181
VotingStart ==
    /\ pc = "dispatch"
    /\ mode = "multi_llm_voting"
    /\ candidates' = [ph \in Range(placeholders) |-> <<>>]
    /\ round' = 1
    /\ pc' = IF Len(temps) >= 1 THEN "vote_send" ELSE "vote_tally"
    /\ UNCHANGED <<widgets, steps, placeholders, combined, fallback, out,
                   mapping, inflight, reqlog, out_doc, download>>

\* lines 183-200: the request of one round
VotingSend ==
    /\ pc = "vote_send"
    /\ reqlog' = Append(reqlog, ModeRequest(mode, round))
    /\ inflight' = inflight + 1
    /\ pc' = "vote_await"
    /\ UNCHANGED <<widgets, steps, placeholders, combined, fallback,
                   candidates, round, out, mapping, out_doc, download>>

\* requests.post returns (lines 199-200)
VotingReceive ==
    /\ pc = "vote_await"
    /\ \E r \in PrimaryResponses(placeholders) : out' = r
    /\ inflight' = post_returns(inflight)
    /\ pc' = "vote_parse"
    /\ UNCHANGED <<widgets, steps, placeholders, combined, fallback,
                   candidates, round, mapping, reqlog, out_doc, download>>

\* lines 201-213 and the loop's next iteration
VotingParse ==
    /\ pc = "vote_parse"
    /\ IF raises(mode, out.kind)
       THEN /\ pc' = "crashed"
            /\ UNCHANGED <<candidates, round>>
       ELSE /\ candidates' = IF out.kind = "ok"
                             THEN add_candidates(candidates, out.obj,
                                                 placeholders)
                             ELSE candidates
            /\ IF round < Len(temps)
               THEN round' = round + 1 /\ pc' = "vote_send"
               ELSE round' = round /\ pc' = "vote_tally"
    /\ out' = NoResponse
    /\ UNCHANGED <<widgets, steps, placeholders, combined, fallback,
                   mapping, inflight, reqlog, out_doc, download>>

\* lines 215-228, then line 349
VotingTally ==
    /\ pc = "vote_tally"
    /\ mapping' = final_map(candidates)
    /\ pc' = "merge"
    /\ steps' = steps \cup {"primary"}
    /\ UNCHANGED <<widgets, placeholders, combined, fallback, candidates,
                   round, out, inflight, reqlog, out_doc, download>>

\* lines 352-355
Merge ==
    /\ pc = "merge"
    /\ mapping' = merge(mapping, fallback, placeholders)
    /\ pc' = "infer"
    /\ steps' = steps \cup {"merge"}
    /\ UNCHANGED <<widgets, placeholders, combined, fallback, candidates,
                   round, out, inflight, reqlog, out_doc, download>>

\* lines 357-371: nothing empty, or call_openrouter raises for the missing
\* key (caught at line 377), or the request is sent
InferStart ==
    /\ pc = "infer"
    /\ IF still_empty(mapping) = {}
       THEN /\ pc' = "fill"
            /\ UNCHANGED <<steps, reqlog, inflight>>
       ELSE /\ steps' = steps \cup {"infer"}
            /\ IF api_key
               THEN /\ reqlog' = Append(reqlog, InferRequest)
                    /\ inflight' = inflight + 1
                    /\ pc' = "infer_await"
               ELSE /\ pc' = "fill"
                    /\ UNCHANGED <<reqlog, inflight>>
    /\ UNCHANGED <<widgets, placeholders, combined, fallback, candidates,
                   round, out, mapping, out_doc, download>>

\* requests.post returns inside call_openrouter (lines 86-87)
InferReceive ==
    /\ pc = "infer_await"
    /\ \E r \in InferResponses(placeholders) : out' = r
    /\ inflight' = post_returns(inflight)
    /\ pc' = "infer_parse"
    /\ UNCHANGED <<widgets, steps, placeholders, combined, fallback,
                   candidates, round, mapping, reqlog, out_doc, download>>

\* lines 88-89 and 372-378: every exception is caught and ignored
InferParse ==
    /\ pc = "infer_parse"
    /\ mapping' = IF out.kind = "ok"
                  THEN apply_inferred(mapping, out.obj, out.order)
                  ELSE mapping
    /\ out' = NoResponse
    /\ pc' = "fill"
    /\ UNCHANGED <<widgets, steps, placeholders, combined, fallback,
                   candidates, round, inflight, reqlog, out_doc, download>>

\* lines 380-383
Fill ==
    /\ pc = "fill"
    /\ out_doc' = fill_docx(uploaded_template, mapping)
    /\ pc' = "offer"
    /\ steps' = steps \cup {"fill"}
    /\ UNCHANGED <<widgets, placeholders, combined, fallback, candidates,
                   round, out, mapping, inflight, reqlog, download>>

\* lines 384-389
Offer ==
    /\ pc = "offer"
    /\ download' = TRUE
    /\ pc' = "done"
    /\ steps' = steps \cup {"offer"}
    /\ UNCHANGED <<widgets, placeholders, combined, fallback, candidates,
                   round, out, mapping, inflight, reqlog, out_doc>>

Next ==
    \/ UploadTemplate \/ UploadPdf \/ RemovePdfs \/ SelectMode \/ ClickRun
    \/ CheckUploads \/ Detect \/ ExtractText \/ ButtonCheck \/ Fallback
    \/ SingleShotSend \/ SingleShotReceive \/ SingleShotParse
    \/ VotingStart \/ VotingSend \/ VotingReceive \/ VotingParse
    \/ VotingTally
    \/ Merge \/ InferStart \/ InferReceive \/ InferParse \/ Fill \/ Offer

Spec == Init /\ [][Next]_vars

----------------------------------------------------------------------------
(* Properties *)

Extracting == pc \in {"merge", "infer", "infer_await", "infer_parse",
                      "fill", "offer"}

Count(vals, v) == Cardinality({i \in 1..Len(vals) : vals[i] = v})
First(vals, v) == CHOOSE i \in 1..Len(vals) :
                     vals[i] = v /\ \A j \in 1..(i - 1) : vals[j] # v

InferRequests == {i \in 1..Len(reqlog) : reqlog[i].kind = "infer"}
PrimaryRequests == {i \in 1..Len(reqlog) : reqlog[i].kind = "primary"}

\* C1: whenever the script reaches the fill step, every detected placeholder
\* has a non-empty value in the mapping handed to fill_docx.
C1_EveryPlaceholderFilled ==
    pc = "fill" =>
        \A i \in 1..Len(placeholders) :
            /\ placeholders[i] \in DOMAIN mapping
            /\ mapping[placeholders[i]] # ""

\* C2: the steps of a run happen in one order: detection and text extraction
\* only with a template and a PDF uploaded; requests only after detection,
\* extraction and the press of Run Extraction; the merge only after the
\* primary extraction returned; the fill only after the merge and with no
\* inference request still out; the download only after the fill.
C2_PipelineOrder ==
    /\ (steps \cap {"detect", "extract"} # {} \/ placeholders # <<>>
            \/ combined # <<>>)
          => (uploaded_template.valid /\ uploaded_pdfs # <<>>)
    /\ placeholders # <<>> => "detect" \in steps
    /\ combined # <<>> => "extract" \in steps
    /\ (reqlog # <<>> \/ inflight > 0)
          => (button /\ {"detect", "extract", "run"} \subseteq steps)
    /\ InferRequests # {} => "merge" \in steps
    /\ "merge" \in steps
          => ("primary" \in steps /\ "fallback" \in steps
              /\ PrimaryRequests # {} /\ pc \notin {"primary_await",
                     "primary_parse", "vote_send", "vote_await", "vote_parse",
                     "vote_tally"})
    /\ (out_doc.valid \/ "fill" \in steps)
          => ("merge" \in steps /\ inflight = 0
              /\ pc \notin {"merge", "infer", "infer_await", "infer_parse"})
    /\ download => ("fill" \in steps /\ out_doc.valid)

C2_Witness == download /\ InferRequests # {} /\ Len(reqlog) = 4

\* C3: at most one request to the model endpoint is outstanding at any time,
\* and a request is issued only when none is outstanding.
C3_OneRequestAtATime ==
    /\ inflight \in {0, 1}
    /\ inflight = 1 <=> pc \in {"primary_await", "vote_await", "infer_await"}

C3_Witness ==
    /\ pc = "infer_await" /\ inflight = 1
    /\ Cardinality(PrimaryRequests) = 3

\* C4: the secondary inference pass is attempted at most once per run and
\* only while some field of the merged mapping is the empty string; whatever
\* comes back from it (an error, text that is no JSON, a wrong shape, an
\* unexpected key), and also a missing API key, the next steps are the fill
\* and the download offer, and a failed attempt leaves the mapping as it was.
C4_BestEffortInference ==
    /\ [](Cardinality(InferRequests) <= 1)
    /\ []("infer" \in steps /\ pc \in {"infer_await", "infer_parse"}
            => \E k \in DOMAIN mapping : mapping[k] = "")
    /\ [][/\ pc = "infer" /\ "infer" \in steps'
                => (/\ \E k \in DOMAIN mapping : mapping[k] = ""
                    /\ "infer" \notin steps
                    /\ pc' = IF api_key THEN "infer_await" ELSE "fill"
                    /\ mapping' = mapping)
          /\ pc = "infer" /\ "infer" \notin steps' => pc' = "fill"
          /\ pc = "infer_parse"
                => (/\ pc' = "fill"
                    /\ out.kind # "ok" => mapping' = mapping)
          /\ pc = "fill" => pc' = "offer" /\ out_doc'.valid
          /\ pc = "offer" => download']_vars

C4_Witness == pc = "infer_parse" /\ out.kind = "http_error"


\* C5 (as claimed): in each of the four modes, a primary response that is an
\* error or cannot be parsed ends the run with an error.
C5_EveryPrimaryFailureEndsRun ==
    [][(pc \in {"primary_parse", "vote_parse"} /\ out.kind # "ok")
           => pc' = "crashed"]_vars

\* C5 (amended): in high_accuracy, strict_validation and field_audit every
\* failure of the primary request or of parsing its response ends the run
\* with an error; in multi_llm_voting a failed request or a response of the
\* wrong shape does too, but a response that is no JSON is skipped and the
\* run goes on.  A run that ended with an error sent nothing more, merged
\* nothing, filled nothing and offers no download.
C5_PrimaryFailures ==
    /\ [][/\ (pc = "primary_parse" /\ out.kind # "ok")
                => (pc' = "crashed" /\ reqlog' = reqlog)
          /\ (pc = "vote_parse" /\ out.kind \in {"http_error", "bad_shape"})
                => (pc' = "crashed" /\ reqlog' = reqlog)
          /\ (pc = "vote_parse" /\ out.kind = "unparseable")
                => pc' \in {"vote_send", "vote_tally"}
          /\ (pc = "dispatch" /\ mode # "multi_llm_voting" /\ ~api_key)
                => (pc' = "crashed" /\ reqlog' = reqlog)]_vars
    /\ [](pc = "crashed"
            => (/\ "merge" \notin steps /\ "primary" \notin steps
                /\ mapping = EmptyDict
                /\ ~out_doc.valid /\ ~download
                /\ inflight = 0
                /\ InferRequests = {}
                /\ mode # "multi_llm_voting" => Len(reqlog) <= 1))

C5_Witness ==
    /\ pc = "crashed" /\ mode = "strict_validation" /\ Len(reqlog) = 1

\* C6 (as claimed): a multi_llm_voting extraction sends what a
\* strict_validation extraction sends, up to the prompt.
C6_SameRequests ==
    (pc = "merge" /\ mode \in {"multi_llm_voting", "strict_validation"})
        => [i \in 1..Len(reqlog) |-> Params(reqlog[i])]
              = <<[kind |-> "primary", temperature |-> 0,
                   max_tokens |-> 1500]>>

\* C6 (amended): the two modes are different algorithms.  strict_validation
\* sends one request (temperature 0.0, max_tokens 1500) and takes the
\* response's mapping with "" for the placeholders it lacks;
\* multi_llm_voting sends three requests (temperatures 0.0, 0.2, 0.6,
\* max_tokens 1200) and takes, per placeholder, a candidate of the rounds.
C6_DistinctAlgorithms ==
    pc = "merge" =>
        /\ mode = "strict_validation"
              => /\ [i \in 1..Len(reqlog) |-> Params(reqlog[i])]
                      = <<[kind |-> "primary", temperature |-> 0,
                           max_tokens |-> 1500]>>
                 /\ Range(placeholders) \subseteq DOMAIN mapping
        /\ mode = "multi_llm_voting"
              => /\ [i \in 1..Len(reqlog) |-> Params(reqlog[i])]
                      = <<[kind |-> "primary", temperature |-> 0,
                           max_tokens |-> 1200],
                          [kind |-> "primary", temperature |-> 2,
                           max_tokens |-> 1200],
                          [kind |-> "primary", temperature |-> 6,
                           max_tokens |-> 1200]>>
                 /\ DOMAIN mapping = Range(placeholders)
                 /\ \A ph \in DOMAIN mapping :
                       mapping[ph] \in Range(candidates[ph]) \cup {""}

C6_Witness ==
    /\ pc = "merge" /\ mode = "multi_llm_voting"
    /\ \E ph \in DOMAIN mapping : mapping[ph] = "y"

C8_EveryInferredValueWritten ==
    [][(pc = "infer_parse" /\ out.kind = "ok")
          => \A k \in (DOMAIN mapping) \cap (DOMAIN out.obj) :
                mapping[k] = "" => mapping'[k] = out.obj[k]]_vars

\* C9: after the fill no token of a detected placeholder is left in the
\* body, the tables, the headers or the footers of the produced document.
C9_NoPlaceholderLeft ==
    out_doc.valid =>
        (scan(out_doc.body) \cup scan(out_doc.tables)
            \cup scan(out_doc.header) \cup scan(out_doc.footer))
        \cap Range(placeholders) = {}

\* C10: llm_voting sends at most three requests, round by round; a round
\* whose response is no JSON adds no candidate and the next round follows; a
\* parsed round adds, per placeholder, its non-empty value (stripped); and
\* the value returned for a placeholder is "" when it has no candidate, else
\* a candidate no other candidate outvotes, the earliest-seen among equals.
C10_Voting ==
    /\ [](mode = "multi_llm_voting"
            => /\ Cardinality(PrimaryRequests) <= 3
               /\ \A i \in PrimaryRequests :
                     /\ i <= 3
                     /\ reqlog[i].temperature = <<0, 2, 6>>[i]
               /\ pc \in {"vote_send", "vote_await", "vote_parse"}
                     => Len(reqlog) = (IF pc = "vote_send" THEN round - 1
                                       ELSE round))
    /\ [][/\ (pc = "vote_parse" /\ out.kind = "unparseable")
                => /\ candidates' = candidates
                   /\ pc' = IF round < 3 THEN "vote_send" ELSE "vote_tally"
          /\ (pc = "vote_parse" /\ out.kind = "ok")
                => \A ph \in Range(placeholders) :
                      candidates'[ph] =
                          IF ph \in DOMAIN out.obj
                             /\ out.obj[ph] \notin {"", None}
                          THEN candidates[ph] \o
                                 <<IF out.obj[ph] = " " THEN ""
                                   ELSE out.obj[ph]>>
                          ELSE candidates[ph]
          /\ pc = "vote_tally"
                => \A ph \in Range(placeholders) :
                      LET vals == candidates[ph]
                          v == mapping'[ph]
                      IN  IF vals = <<>> THEN v = ""
                          ELSE /\ v \in Range(vals)
                               /\ \A w \in Range(vals) :
                                     \/ Count(vals, v) > Count(vals, w)
                                     \/ /\ Count(vals, v) = Count(vals, w)
                                        /\ First(vals, v) <= First(vals, w)
         ]_vars

C10_Witness ==
    /\ pc = "merge" /\ mode = "multi_llm_voting"
    /\ \E ph \in DOMAIN mapping :
          /\ candidates[ph] = <<"y", "x">>
          /\ mapping[ph] = "y"

====
